---- MODULE Spec2Model ----
(***************************************************************************)
(* Model of core/vm/precompile/event/event.go: the translation of a Cosmos *)
(* event (ordered key/value string attributes) into the Topics and Data of *)
(* an Ethereum log, driven by a PrecompileEvent descriptor.                *)
(***************************************************************************)
EXTENDS Integers, Sequences, FiniteSets, TLC

\* ---------------------------------------------------------------- bounds
\* largest number of inputs of an ABI event signature
MaxInputs == 4
\* largest number of attributes of a Cosmos event
MaxAttrs == 2

\* ------------------------------------------------------------ input sets
ArgNames == {"from", "amount"}
ArgType(name) == IF name = "from" THEN "address" ELSE "uint256"
\* attribute values: "1" reads as a decimal number and as a hex address,
\* "0x2" as a hex address only
AttrValues == {"1", "0x2"}
EventTypes == {"transfer"}
EventIDs == {101}
ModuleAddrs == {55}

SeqsUpTo(S, n) == UNION {[1..k -> S] : k \in 0..n}

\* abi.Argument: name, type and the indexed flag
Arguments == {[Name |-> n, Type |-> ArgType(n), Indexed |-> b] :
                 n \in ArgNames, b \in BOOLEAN}
\* abi.Event: the identifier and the declared inputs
AbiEvents == {[ID |-> id, Inputs |-> ins] :
                 id \in EventIDs, ins \in SeqsUpTo(Arguments, MaxInputs)}
\* sdk.Attribute and sdk.Event
Attributes == {[Key |-> k, Value |-> v] : k \in ArgNames, v \in AttrValues}
Events == {[Type |-> t, Attributes |-> as] :
              t \in EventTypes, as \in SeqsUpTo(Attributes, MaxAttrs)}

\* ------------------------------------------------------- value decoders
\* a decoder function is named by a string; the nil function is NilDecoder
NilDecoder == "nil"
NoErr == <<>>

\* the value of a base-10 numeral; -1 when s is not one
ParseDec(s) == CASE s = "1" -> 1 [] OTHER -> -1
\* the value of a hex string with or without the 0x prefix; -1 when not one
ParseHex(s) == CASE s = "1" -> 1 [] s = "0x2" -> 2 [] OTHER -> -1

NilValue == [t |-> "nil", v |-> 0]

\* decode(attr.Value): the typed value and the error of decoder d on s
Decode(d, s) ==
    LET n == IF d = "ConvertAddress" THEN ParseHex(s) ELSE ParseDec(s) IN
    IF n < 0
    THEN [err |-> <<"decode", d, s>>, val |-> NilValue]
    ELSE CASE d = "ConvertBigInt"  -> [err |-> NoErr, val |-> [t |-> "uint256", v |-> n]]
           [] d = "ConvertAddress" -> [err |-> NoErr, val |-> [t |-> "address", v |-> n]]
           [] d = "ConvertWei"     -> [err |-> NoErr, val |-> [t |-> "uint256", v |-> n * 10]]
           [] d = "ConvertCoin"    -> [err |-> NoErr, val |-> [t |-> "coin", v |-> n]]

\* ValueDecoders: a Go map from attribute key to decoder; a missing key
\* reads as the nil function.  isNil is the nil map.
NoEntries == [k \in ArgNames |-> NilDecoder]
NilMap == [isNil |-> TRUE, m |-> NoEntries]
MapOf(m) == [isNil |-> FALSE, m |-> m]
CustomDecoderChoices ==
    { NilMap,
      MapOf([NoEntries EXCEPT !["from"] = "ConvertAddress"]),
      MapOf([NoEntries EXCEPT !["amount"] = "ConvertWei"]),
      MapOf([NoEntries EXCEPT !["from"] = "ConvertAddress", !["amount"] = "ConvertWei"]),
      MapOf([NoEntries EXCEPT !["from"] = "ConvertCoin"]) }

\* the process-wide default table
defaultCosmosValueDecoders == [NoEntries EXCEPT !["amount"] = "ConvertBigInt"]

\* ----------------------------------------------------------- descriptor
RECURSIVE SelectArgs(_, _)
SelectArgs(args, indexed) ==
    IF args = <<>> THEN <<>>
    ELSE IF Head(args).Indexed = indexed
         THEN <<Head(args)>> \o SelectArgs(Tail(args), indexed)
         ELSE SelectArgs(Tail(args), indexed)

\* abi.GetIndexed: the inputs flagged indexed, in declaration order
GetIndexed(args) == SelectArgs(args, TRUE)
\* abi.Arguments.NonIndexed: the remaining inputs, in declaration order
NonIndexed(args) == SelectArgs(args, FALSE)

NewPrecompileEvent(moduleAddr, abiEvent, customValueDecoders) ==
    [ moduleAddr          |-> moduleAddr,
      id                  |-> abiEvent.ID,
      indexedInputs       |-> GetIndexed(abiEvent.Inputs),
      nonIndexedInputs    |-> NonIndexed(abiEvent.Inputs),
      customValueDecoders |-> customValueDecoders ]

\* ------------------------------------------------------ attribute lookup
notFound == -1

RECURSIVE searchFrom(_, _, _)
searchFrom(attributes, argName, i) ==
    IF i > Len(attributes) THEN notFound
    ELSE IF attributes[i].Key = argName THEN i - 1
    ELSE searchFrom(attributes, argName, i + 1)

\* index (from 0) of the first attribute whose key is argName, or notFound
searchAttributesForArg(attributes, argName) == searchFrom(attributes, argName, 1)

\* the attribute read one place too far, where there is one
AttrAtNext(event, attrIdx) ==
    IF attrIdx + 2 <= Len(event.Attributes)
    THEN event.Attributes[attrIdx + 2]
    ELSE event.Attributes[attrIdx + 1]

\* event.Attributes[attrIdx], Go indices start at 0
AttrAt(event, attrIdx) == event.Attributes[attrIdx + 1]

\* ------------------------------------------------------ decoder lookup
ErrNoDecoder(attrKey) ==
    <<"event attribute key is not mapped to a value decoder function", attrKey>>

\* the default table consulted before the descriptor's own decoders
getValueDecoderDefaultFirst(pe, attrKey) ==
    IF defaultCosmosValueDecoders[attrKey] # NilDecoder
    THEN [decode |-> defaultCosmosValueDecoders[attrKey], err |-> NoErr]
    ELSE IF ~pe.customValueDecoders.isNil /\ pe.customValueDecoders.m[attrKey] # NilDecoder
    THEN [decode |-> pe.customValueDecoders.m[attrKey], err |-> NoErr]
    ELSE [decode |-> NilDecoder, err |-> ErrNoDecoder(attrKey)]

\* a fallback decoder handed out where no decoder is registered
getValueDecoderLenient(pe, attrKey) ==
    IF ~pe.customValueDecoders.isNil /\ pe.customValueDecoders.m[attrKey] # NilDecoder
    THEN [decode |-> pe.customValueDecoders.m[attrKey], err |-> NoErr]
    ELSE IF defaultCosmosValueDecoders[attrKey] # NilDecoder
    THEN [decode |-> defaultCosmosValueDecoders[attrKey], err |-> NoErr]
    ELSE [decode |-> "ConvertBigInt", err |-> NoErr]

getValueDecoder(pe, attrKey) ==
    IF ~pe.customValueDecoders.isNil /\ pe.customValueDecoders.m[attrKey] # NilDecoder
    THEN [decode |-> pe.customValueDecoders.m[attrKey], err |-> NoErr]
    ELSE IF defaultCosmosValueDecoders[attrKey] # NilDecoder
    THEN [decode |-> defaultCosmosValueDecoders[attrKey], err |-> NoErr]
    ELSE [decode |-> NilDecoder, err |-> ErrNoDecoder(attrKey)]

\* ------------------------------------------------------------- results
\* what a builder returns: the error (NoErr for nil), the slice and whether
\* the slice is the nil slice
Failure(err) == [err |-> err, out |-> <<>>, isNil |-> TRUE]
Success(out) == [err |-> NoErr, out |-> out, isNil |-> FALSE]
NotRun == [done |-> FALSE, res |-> Failure(NoErr)]
Ran(res) == [done |-> TRUE, res |-> res]

ErrMissingAttribute(eventType, argName) ==
    <<"no attribute key found for event argument", eventType, argName>>

\* ---------------------------------------------------------- MakeTopics
\* geth abi.MakeTopics on one filter query: a hash, an address and a big
\* integer become one 32-byte word each, any other Go type is rejected
abiMakeTopics(filterQuery) ==
    IF \E j \in DOMAIN filterQuery : filterQuery[j].t \notin {"hash", "address", "uint256"}
    THEN [err |-> <<"unsupported indexed type">>, topics |-> <<>>]
    ELSE [err |-> NoErr, topics |-> [j \in DOMAIN filterQuery |-> filterQuery[j].v]]

\* the loop of MakeTopics run over the non-indexed arguments
RECURSIVE topicsLoopOverNonIndexed(_, _, _, _)
topicsLoopOverNonIndexed(pe, ev, i, filterQuery) ==
    IF i > Len(pe.nonIndexedInputs) \/ i + 1 > Len(filterQuery)
    THEN [err |-> NoErr, filterQuery |-> filterQuery]
    ELSE
      LET arg     == pe.nonIndexedInputs[i]
          attrIdx == searchAttributesForArg(ev.Attributes, arg.Name)
      IN IF attrIdx = notFound
         THEN [err |-> ErrMissingAttribute(ev.Type, arg.Name), filterQuery |-> filterQuery]
         ELSE
           LET attr == AttrAt(ev, attrIdx)
               dec  == getValueDecoder(pe, attr.Key)
           IN IF dec.err # NoErr
              THEN [err |-> dec.err, filterQuery |-> filterQuery]
              ELSE
                LET r == Decode(dec.decode, attr.Value)
                IN IF r.err # NoErr
                   THEN [err |-> r.err, filterQuery |-> filterQuery]
                   ELSE topicsLoopOverNonIndexed(pe, ev, i + 1,
                                   [filterQuery EXCEPT ![i + 1] = r.val])

\* the loop over pe.indexedInputs; i counts from 1, slot i + 1 of the query
\* is the slot the code writes as filterQuery[i+1] with i from 0
RECURSIVE topicsLoop(_, _, _, _)
topicsLoop(pe, ev, i, filterQuery) ==
    IF i > Len(pe.indexedInputs)
    THEN [err |-> NoErr, filterQuery |-> filterQuery]
    ELSE
      LET arg     == pe.indexedInputs[i]
          attrIdx == searchAttributesForArg(ev.Attributes, arg.Name)
      IN IF attrIdx = notFound
         THEN [err |-> ErrMissingAttribute(ev.Type, arg.Name), filterQuery |-> filterQuery]
         ELSE
           LET attr == AttrAt(ev, attrIdx)
               dec  == getValueDecoder(pe, attr.Key)
           IN IF dec.err # NoErr
              THEN [err |-> dec.err, filterQuery |-> filterQuery]
              ELSE
                LET r == Decode(dec.decode, attr.Value)
                IN IF r.err # NoErr
                   THEN [err |-> r.err, filterQuery |-> filterQuery]
                   ELSE topicsLoop(pe, ev, i + 1,
                                   [filterQuery EXCEPT ![i + 1] = r.val])

\* the topics converted so far handed back together with the error
MakeTopicsPartial(pe, ev) ==
    LET query == [j \in 1..(Len(pe.indexedInputs) + 1) |->
                     IF j = 1 THEN [t |-> "hash", v |-> pe.id] ELSE NilValue]
        loop  == topicsLoop(pe, ev, 1, query)
    IN IF loop.err # NoErr
       THEN [err |-> loop.err, isNil |-> FALSE,
             out |-> [j \in DOMAIN loop.filterQuery |-> loop.filterQuery[j].v]]
       ELSE LET made == abiMakeTopics(loop.filterQuery)
            IN IF made.err # NoErr
               THEN Failure(made.err)
               ELSE Success(made.topics)

\* the attribute count of the whole descriptor checked before the topics
\* are built
MakeTopicsCounted(pe, ev) ==
    LET query == [j \in 1..(Len(pe.indexedInputs) + 1) |->
                     IF j = 1 THEN [t |-> "hash", v |-> pe.id] ELSE NilValue]
        loop  == topicsLoop(pe, ev, 1, query)
    IN IF Len(ev.Attributes) < Len(pe.indexedInputs) + Len(pe.nonIndexedInputs)
       THEN Failure(<<"not enough event attributes provided for event", ev.Type>>)
       ELSE IF loop.err # NoErr
       THEN Failure(loop.err)
       ELSE LET made == abiMakeTopics(loop.filterQuery)
            IN IF made.err # NoErr
               THEN Failure(made.err)
               ELSE Success(made.topics)

MakeTopics(pe, ev) ==
    LET query == [j \in 1..(Len(pe.indexedInputs) + 1) |->
                     IF j = 1 THEN [t |-> "hash", v |-> pe.id] ELSE NilValue]
        loop  == topicsLoop(pe, ev, 1, query)
    IN IF loop.err # NoErr
       THEN Failure(loop.err)
       ELSE LET made == abiMakeTopics(loop.filterQuery)
            IN IF made.err # NoErr
               THEN Failure(made.err)
               ELSE Success(made.topics)

\* ------------------------------------------------------------ MakeData
\* geth abi.Arguments.PackValues: every value must have the Go type of its
\* argument; static values are packed as one 32-byte word each, in order.
\* Packing no value at all yields the nil slice.
PackValues(args, attrVals) ==
    IF Len(attrVals) # Len(args)
    THEN Failure(<<"argument count mismatch">>)
    ELSE IF \E j \in 1..Len(args) : attrVals[j].t # args[j].Type
    THEN Failure(<<"abi: cannot use value as type">>)
    ELSE [err |-> NoErr, out |-> [j \in 1..Len(args) |-> attrVals[j].v],
          isNil |-> (Len(args) = 0)]

\* the loop of MakeData with index 0 taken for the not-found sentinel
RECURSIVE dataLoopZeroIsNotFound(_, _, _, _)
dataLoopZeroIsNotFound(pe, ev, i, attrVals) ==
    IF i > Len(pe.nonIndexedInputs)
    THEN [err |-> NoErr, attrVals |-> attrVals]
    ELSE
      LET arg     == pe.nonIndexedInputs[i]
          attrIdx == searchAttributesForArg(ev.Attributes, arg.Name)
      IN IF attrIdx <= 0
         THEN [err |-> ErrMissingAttribute(ev.Type, arg.Name), attrVals |-> attrVals]
         ELSE
           LET attr == AttrAt(ev, attrIdx)
               dec  == getValueDecoder(pe, attr.Key)
           IN IF dec.err # NoErr
              THEN [err |-> dec.err, attrVals |-> attrVals]
              ELSE
                LET r == Decode(dec.decode, attr.Value)
                IN IF r.err # NoErr
                   THEN [err |-> r.err, attrVals |-> attrVals]
                   ELSE dataLoopZeroIsNotFound(pe, ev, i + 1,
                                               [attrVals EXCEPT ![i] = r.val])

RECURSIVE dataLoop(_, _, _, _)
dataLoop(pe, ev, i, attrVals) ==
    IF i > Len(pe.nonIndexedInputs)
    THEN [err |-> NoErr, attrVals |-> attrVals]
    ELSE
      LET arg     == pe.nonIndexedInputs[i]
          attrIdx == searchAttributesForArg(ev.Attributes, arg.Name)
      IN IF attrIdx = notFound
         THEN [err |-> ErrMissingAttribute(ev.Type, arg.Name), attrVals |-> attrVals]
         ELSE
           LET attr == AttrAt(ev, attrIdx)
               dec  == getValueDecoder(pe, attr.Key)
           IN IF dec.err # NoErr
              THEN [err |-> dec.err, attrVals |-> attrVals]
              ELSE
                LET r == Decode(dec.decode, attr.Value)
                IN IF r.err # NoErr
                   THEN [err |-> r.err, attrVals |-> attrVals]
                   ELSE dataLoop(pe, ev, i + 1, [attrVals EXCEPT ![i] = r.val])

MakeData(pe, ev) ==
    LET loop == dataLoop(pe, ev, 1, [j \in 1..Len(pe.nonIndexedInputs) |-> NilValue])
    IN IF loop.err # NoErr
       THEN Failure(loop.err)
       ELSE PackValues(pe.nonIndexedInputs, loop.attrVals)

\* -------------------------------------------------- ValidateAttributes
\* only the indexed arguments counted
ValidateAttributesIndexedOnly(pe, ev) ==
    IF Len(ev.Attributes) < Len(pe.indexedInputs)
    THEN <<"not enough event attributes provided for event", ev.Type>>
    ELSE NoErr

\* an event with exactly as many attributes as arguments turned away
ValidateAttributesStrict(pe, ev) ==
    IF Len(ev.Attributes) <= Len(pe.indexedInputs) + Len(pe.nonIndexedInputs)
    THEN <<"not enough event attributes provided for event", ev.Type>>
    ELSE NoErr

ValidateAttributes(pe, ev) ==
    IF Len(ev.Attributes) < Len(pe.indexedInputs) + Len(pe.nonIndexedInputs)
    THEN <<"not enough event attributes provided for event", ev.Type>>
    ELSE NoErr

\* ======================================================= state machine
VARIABLES
    descriptor,   \* the PrecompileEvent built by NewPrecompileEvent
    event,        \* the Cosmos event handed to the three operations
    topics,       \* what MakeTopics(event) returned, once it ran
    data,         \* what MakeData(event) returned, once it ran
    valid         \* what ValidateAttributes(event) returned, once it ran

vars == <<descriptor, event, topics, data, valid>>

Init ==
    /\ \E addr \in ModuleAddrs, abiEvent \in AbiEvents, custom \in CustomDecoderChoices :
          descriptor = NewPrecompileEvent(addr, abiEvent, custom)
    /\ event \in Events
    /\ topics = NotRun
    /\ data = NotRun
    /\ valid = [done |-> FALSE, err |-> NoErr]

\* Each operation only reads the descriptor and the event, so calling it
\* again returns what it returned before: the model takes each call once.
DoMakeTopics ==
    /\ ~topics.done
    /\ topics' = Ran(MakeTopics(descriptor, event))
    /\ UNCHANGED <<descriptor, event, data, valid>>

DoMakeData ==
    /\ ~data.done
    /\ data' = Ran(MakeData(descriptor, event))
    /\ UNCHANGED <<descriptor, event, topics, valid>>

DoValidateAttributes ==
    /\ ~valid.done
    /\ valid' = [done |-> TRUE, err |-> ValidateAttributes(descriptor, event)]
    /\ UNCHANGED <<descriptor, event, topics, data>>

Next == DoMakeTopics \/ DoMakeData \/ DoValidateAttributes

Spec == Init /\ [][Next]_vars

\* ============================================== vocabulary of the claims
\* the event carries an attribute whose key is name
HasKey(ev, name) == \E j \in 1..Len(ev.Attributes) : ev.Attributes[j].Key = name

\* the first attribute of the event whose key is name
FirstAttr(ev, name) ==
    ev.Attributes[CHOOSE j \in 1..Len(ev.Attributes) :
                     /\ ev.Attributes[j].Key = name
                     /\ \A k \in 1..(j - 1) : ev.Attributes[k].Key # name]

HasOverride(pe, key) ==
    ~pe.customValueDecoders.isNil /\ pe.customValueDecoders.m[key] # NilDecoder
HasDefault(key) == defaultCosmosValueDecoders[key] # NilDecoder
HasDecoder(pe, key) == HasOverride(pe, key) \/ HasDefault(key)

\* the decoder the two tiers give for key: the override, else the default
DecoderFor(pe, key) ==
    IF HasOverride(pe, key) THEN pe.customValueDecoders.m[key]
    ELSE defaultCosmosValueDecoders[key]

\* the argument is located, has a decoder and its value decodes
Translates(pe, ev, arg) ==
    /\ HasKey(ev, arg.Name)
    /\ HasDecoder(pe, arg.Name)
    /\ Decode(DecoderFor(pe, arg.Name), FirstAttr(ev, arg.Name).Value).err = NoErr

\* the decoded value of the attribute matching the argument
ValueOf(pe, ev, arg) ==
    Decode(DecoderFor(pe, arg.Name), FirstAttr(ev, arg.Name).Value).val

AllTranslate(pe, ev, args) == \A i \in 1..Len(args) : Translates(pe, ev, args[i])

\* ------------------------------------------------------------------ C1
\* C1: every topic list MakeTopics returns without error has exactly
\* 1 + len(indexedInputs) entries, slot 0 is the descriptor's event id and
\* slot i+1 is the word of the decoded value of the attribute matching the
\* i-th indexed argument, whatever the order of the event's attributes.
C1_TopicsShape ==
    (topics.done /\ topics.res.err = NoErr) =>
        /\ ~topics.res.isNil
        /\ Len(topics.res.out) = 1 + Len(descriptor.indexedInputs)
        /\ topics.res.out[1] = descriptor.id
        /\ \A i \in 1..Len(descriptor.indexedInputs) :
              /\ HasKey(event, descriptor.indexedInputs[i].Name)
              /\ topics.res.out[i + 1] =
                    ValueOf(descriptor, event, descriptor.indexedInputs[i]).v

\* topics were built for two differently named indexed arguments whose
\* attributes come in the opposite order in the event, with different words
C1_Witness ==
    /\ topics.done /\ topics.res.err = NoErr
    /\ Len(descriptor.indexedInputs) = 2
    /\ Len(event.Attributes) = 2
    /\ descriptor.indexedInputs[1].Name = event.Attributes[2].Key
    /\ descriptor.indexedInputs[2].Name = event.Attributes[1].Key
    /\ event.Attributes[1].Key # event.Attributes[2].Key
    /\ topics.res.out[2] # topics.res.out[3]

\* ------------------------------------------------------------------ C2
\* a step that sets the validator's result
C2_ValidateStep ==
    (valid' # valid) =>
        /\ valid'.done
        /\ (valid'.err # NoErr) <=>
              (Len(event.Attributes) <
                  Len(descriptor.indexedInputs) + Len(descriptor.nonIndexedInputs))
        /\ event' = event
        /\ descriptor' = descriptor

\* C2: ValidateAttributes returns an error exactly when the event has fewer
\* attributes than the descriptor has indexed plus non-indexed arguments,
\* nil otherwise (equality included), and leaves the event and the
\* descriptor as they were.
C2_ValidateAttributes == [][C2_ValidateStep]_vars

\* the validator accepted an event that has exactly as many attributes as
\* the descriptor has arguments, some of them not indexed
C2_Witness ==
    /\ valid.done /\ valid.err = NoErr
    /\ Len(descriptor.nonIndexedInputs) > 0
    /\ Len(event.Attributes) =
          Len(descriptor.indexedInputs) + Len(descriptor.nonIndexedInputs)

\* ------------------------------------------------------------------ C3
\* C3: decoder resolution gives the descriptor's override for every key
\* that has one, the default only where the descriptor has no override, and
\* an error only where neither table has a decoder; a builder's output for
\* an overridden key is the override's decoding of the value.
C3_OverridePrecedence ==
    /\ \A key \in ArgNames :
          LET r == getValueDecoder(descriptor, key) IN
          /\ HasOverride(descriptor, key) =>
                r.err = NoErr /\ r.decode = descriptor.customValueDecoders.m[key]
          /\ (~HasOverride(descriptor, key) /\ HasDefault(key)) =>
                r.err = NoErr /\ r.decode = defaultCosmosValueDecoders[key]
          /\ (r.err # NoErr) <=> (~HasOverride(descriptor, key) /\ ~HasDefault(key))
          /\ (r.err # NoErr) => r.err = ErrNoDecoder(key)
    /\ (data.done /\ data.res.err = NoErr) =>
          \A i \in 1..Len(descriptor.nonIndexedInputs) :
             LET name == descriptor.nonIndexedInputs[i].Name IN
             HasOverride(descriptor, name) =>
                data.res.out[i] =
                   Decode(descriptor.customValueDecoders.m[name],
                          FirstAttr(event, name).Value).val.v
    /\ (topics.done /\ topics.res.err = NoErr) =>
          \A i \in 1..Len(descriptor.indexedInputs) :
             LET name == descriptor.indexedInputs[i].Name IN
             HasOverride(descriptor, name) =>
                topics.res.out[i + 1] =
                   Decode(descriptor.customValueDecoders.m[name],
                          FirstAttr(event, name).Value).val.v

\* data was packed for a key that both tables decode, and the packed word
\* is the override's, which differs from what the default would give
C3_Witness ==
    /\ data.done /\ data.res.err = NoErr
    /\ Len(descriptor.nonIndexedInputs) > 0
    /\ LET name == descriptor.nonIndexedInputs[1].Name IN
       /\ HasOverride(descriptor, name)
       /\ HasDefault(name)
       /\ data.res.out[1] #
             Decode(defaultCosmosValueDecoders[name], FirstAttr(event, name).Value).val.v

\* ------------------------------------------------------------------ C4
\* the names of the arguments in args
NamesOf(args) == {args[i].Name : i \in 1..Len(args)}

\* C4 as stated: a key required by the descriptor that no table decodes
\* makes both builders fail with the no-decoder-for-key error and no output.
C4_BothBuildersFail ==
    \A key \in NamesOf(descriptor.indexedInputs) \cup NamesOf(descriptor.nonIndexedInputs) :
       ~HasDecoder(descriptor, key) =>
          /\ topics.done => topics.res = Failure(ErrNoDecoder(key))
          /\ data.done => data.res = Failure(ErrNoDecoder(key))

\* a builder with arguments args and result res fails without output when
\* one of its own arguments has no decoder, and with the no-decoder error
\* when that argument is the first one that cannot be translated and its
\* attribute is in the event
NoDecoderFails(args, res) ==
    \A i \in 1..Len(args) :
       ~HasDecoder(descriptor, args[i].Name) =>
          /\ res.err # NoErr
          /\ res.isNil
          /\ res.out = <<>>
          /\ ( /\ HasKey(event, args[i].Name)
               /\ \A k \in 1..(i - 1) : Translates(descriptor, event, args[k]) )
             => res.err = ErrNoDecoder(args[i].Name)

\* C4 (amended): a builder one of whose own arguments names a key without
\* override and without default fails and produces no output; the error is
\* the no-decoder-for-key error when that argument is the builder's first
\* untranslatable one and the event carries its attribute.
C4_NoDecoder ==
    /\ topics.done => NoDecoderFails(descriptor.indexedInputs, topics.res)
    /\ data.done => NoDecoderFails(descriptor.nonIndexedInputs, data.res)

\* both builders ran on a descriptor that needs an undecodable key in both
\* argument lists, and both reported that key
C4_Witness ==
    /\ topics.done /\ data.done
    /\ \E key \in NamesOf(descriptor.indexedInputs) \cap NamesOf(descriptor.nonIndexedInputs) :
          /\ ~HasDecoder(descriptor, key)
          /\ topics.res = Failure(ErrNoDecoder(key))
          /\ data.res = Failure(ErrNoDecoder(key))

\* ------------------------------------------------------------------ C5
AllOrNothing(args, res) ==
    /\ res.err # NoErr => (res.isNil /\ res.out = <<>>)
    /\ ~AllTranslate(descriptor, event, args) => res.err # NoErr
    /\ ~res.isNil => (res.err = NoErr /\ AllTranslate(descriptor, event, args))

\* C5: a builder some argument of which is not located, has no decoder or
\* fails to decode returns an error with a nil result, never a partial
\* one; a non-nil result means every argument was located and decoded.
C5_AllOrNothing ==
    /\ topics.done => AllOrNothing(descriptor.indexedInputs, topics.res)
    /\ data.done => AllOrNothing(descriptor.nonIndexedInputs, data.res)

\* both builders failed on their second argument after the first one had
\* been decoded
C5_Witness ==
    /\ topics.done /\ data.done
    /\ Len(descriptor.indexedInputs) >= 2
    /\ Len(descriptor.nonIndexedInputs) >= 2
    /\ Translates(descriptor, event, descriptor.indexedInputs[1])
    /\ ~Translates(descriptor, event, descriptor.indexedInputs[2])
    /\ Translates(descriptor, event, descriptor.nonIndexedInputs[1])
    /\ ~Translates(descriptor, event, descriptor.nonIndexedInputs[2])
    /\ topics.res.err # NoErr /\ topics.res.isNil
    /\ data.res.err # NoErr /\ data.res.isNil

\* ------------------------------------------------------------------ C6
RECURSIVE KeepKeys(_, _)
KeepKeys(attrs, keys) ==
    IF attrs = <<>> THEN <<>>
    ELSE IF Head(attrs).Key \in keys
         THEN <<Head(attrs)>> \o KeepKeys(Tail(attrs), keys)
         ELSE KeepKeys(Tail(attrs), keys)

\* the event without the attributes whose key is not in keys
Restrict(ev, keys) == [Type |-> ev.Type, Attributes |-> KeepKeys(ev.Attributes, keys)]

\* each builder's outcome is its outcome on the attributes matching its
\* own argument list
OwnAttributesOnly ==
    /\ topics.done =>
          topics.res = MakeTopics(descriptor,
                                  Restrict(event, NamesOf(descriptor.indexedInputs)))
    /\ data.done =>
          data.res = MakeData(descriptor,
                              Restrict(event, NamesOf(descriptor.nonIndexedInputs)))

\* a value the topic conversion of the ABI library takes
TopicConvertible(val) == val.t \in {"hash", "address", "uint256"}

\* C6 as stated: an event that lacks the attribute of a non-indexed
\* argument and has a decodable attribute for every indexed argument makes
\* MakeData fail with the missing-attribute error naming the event type and
\* the argument while MakeTopics succeeds; each builder's outcome depends
\* only on the attributes matching its own arguments.
C6_AsStated ==
    /\ ( /\ topics.done /\ data.done
         /\ AllTranslate(descriptor, event, descriptor.indexedInputs)
         /\ \E i \in 1..Len(descriptor.nonIndexedInputs) :
               ~HasKey(event, descriptor.nonIndexedInputs[i].Name) )
       => /\ \E i \in 1..Len(descriptor.nonIndexedInputs) :
                /\ ~HasKey(event, descriptor.nonIndexedInputs[i].Name)
                /\ data.res = Failure(ErrMissingAttribute(event.Type,
                                         descriptor.nonIndexedInputs[i].Name))
          /\ topics.res.err = NoErr
    /\ OwnAttributesOnly

\* C6 (amended): when the first non-indexed argument that cannot be
\* translated is one whose attribute is absent, and every indexed argument
\* has an attribute that decodes to a value the topic conversion takes,
\* MakeData fails with the missing-attribute error naming the event type
\* and that argument while MakeTopics succeeds; each builder's outcome
\* depends only on the attributes matching its own arguments.
C6_Independent ==
    /\ ( /\ topics.done /\ data.done
         /\ AllTranslate(descriptor, event, descriptor.indexedInputs)
         /\ \A j \in 1..Len(descriptor.indexedInputs) :
               TopicConvertible(ValueOf(descriptor, event, descriptor.indexedInputs[j])) )
       => \A i \in 1..Len(descriptor.nonIndexedInputs) :
             ( /\ ~HasKey(event, descriptor.nonIndexedInputs[i].Name)
               /\ \A k \in 1..(i - 1) :
                     Translates(descriptor, event, descriptor.nonIndexedInputs[k]) )
             => /\ data.res = Failure(ErrMissingAttribute(event.Type,
                                         descriptor.nonIndexedInputs[i].Name))
                /\ topics.res.err = NoErr
                /\ ~topics.res.isNil
    /\ OwnAttributesOnly

\* on one event MakeData reported the missing attribute of its argument
\* and MakeTopics built the topics of an indexed argument
C6_Witness ==
    /\ topics.done /\ data.done
    /\ Len(descriptor.indexedInputs) >= 1
    /\ Len(descriptor.nonIndexedInputs) >= 1
    /\ ~HasKey(event, descriptor.nonIndexedInputs[1].Name)
    /\ data.res = Failure(ErrMissingAttribute(event.Type,
                             descriptor.nonIndexedInputs[1].Name))
    /\ topics.res.err = NoErr
    /\ Len(topics.res.out) >= 2

\* ------------------------------------------------------------------ C7
\* the locator gives the index of the first attribute with the key and,
\* where there is none, the sentinel, which is no index of the event
LocatorFirstMatch ==
    \A name \in ArgNames :
       LET idx == searchAttributesForArg(event.Attributes, name) IN
       /\ HasKey(event, name) =>
             /\ idx \in 0..(Len(event.Attributes) - 1)
             /\ AttrAt(event, idx) = FirstAttr(event, name)
       /\ ~HasKey(event, name) =>
             /\ idx = notFound
             /\ idx \notin 0..(Len(event.Attributes) - 1)

\* a builder with arguments args, result res and its values from slot
\* off + 1 on decodes the first attribute with each argument's key, and
\* reports the missing attribute exactly for a key the event does not have
FirstMatchBuilder(args, res, off) ==
    /\ res.err = NoErr =>
          \A i \in 1..Len(args) :
             /\ HasKey(event, args[i].Name)
             /\ res.out[i + off] = ValueOf(descriptor, event, args[i]).v
    /\ \A i \in 1..Len(args) :
          (\A k \in 1..(i - 1) : Translates(descriptor, event, args[k])) =>
             /\ ~HasKey(event, args[i].Name) =>
                   res = Failure(ErrMissingAttribute(event.Type, args[i].Name))
             /\ (HasKey(event, args[i].Name) /\ HasDecoder(descriptor, args[i].Name)
                   /\ ~Translates(descriptor, event, args[i])) =>
                   res = Failure(Decode(DecoderFor(descriptor, args[i].Name),
                                        FirstAttr(event, args[i].Name).Value).err)
    /\ \A name \in ArgNames :
          res.err = ErrMissingAttribute(event.Type, name) => ~HasKey(event, name)

\* C7: attribute lookup is first-match: with several attributes of the
\* argument's key both builders decode the first one in the event's order;
\* with none the lookup yields a sentinel that is no valid index (0
\* included) and the builder reports the missing attribute.
C7_FirstMatch ==
    /\ LocatorFirstMatch
    /\ topics.done => FirstMatchBuilder(descriptor.indexedInputs, topics.res, 1)
    /\ data.done => FirstMatchBuilder(descriptor.nonIndexedInputs, data.res, 0)

\* both builders ran on an event with two attributes of one key and
\* different values, and both hold the word of the first
C7_Witness ==
    /\ topics.done /\ topics.res.err = NoErr
    /\ data.done /\ data.res.err = NoErr
    /\ Len(event.Attributes) >= 2
    /\ event.Attributes[1].Key = event.Attributes[2].Key
    /\ event.Attributes[1].Value # event.Attributes[2].Value
    /\ Len(descriptor.indexedInputs) >= 1
    /\ Len(descriptor.nonIndexedInputs) >= 1
    /\ descriptor.indexedInputs[1].Name = event.Attributes[1].Key
    /\ descriptor.nonIndexedInputs[1].Name = event.Attributes[1].Key
    /\ topics.res.out[2] = data.res.out[1]
    /\ data.res.out[1] # ValueOf(descriptor,
                                 [Type |-> event.Type, Attributes |-> Tail(event.Attributes)],
                                 descriptor.nonIndexedInputs[1]).v

\* ------------------------------------------------------------------ C8
\* C8 as stated: no descriptor that is translated has more than 3 indexed
\* arguments, a signature with a 4th one being rejected at construction,
\* so every topic list MakeTopics produces has between 1 and 4 hashes.
C8_AtMostThreeIndexed ==
    /\ (topics.done \/ data.done \/ valid.done) => Len(descriptor.indexedInputs) <= 3
    /\ (topics.done /\ topics.res.err = NoErr) => Len(topics.res.out) \in 1..4

\* ------------------------------------------------------------------ C9
DistinctNames(pe) ==
    LET all == pe.indexedInputs \o pe.nonIndexedInputs IN
    \A i, j \in 1..Len(all) : i # j => all[i].Name # all[j].Name

AllLocated(ev, args) == \A i \in 1..Len(args) : HasKey(ev, args[i].Name)

\* C9: passing ValidateAttributes is necessary for translation: with
\* pairwise distinct argument names, an event in which both builders
\* locate all their arguments is accepted by ValidateAttributes, and no
\* builder reports a missing attribute on it.
C9_Necessary ==
    ( /\ DistinctNames(descriptor)
      /\ AllLocated(event, descriptor.indexedInputs)
      /\ AllLocated(event, descriptor.nonIndexedInputs) )
    => /\ valid.done => valid.err = NoErr
       /\ \A name \in ArgNames :
             /\ topics.done => topics.res.err # ErrMissingAttribute(event.Type, name)
             /\ data.done => data.res.err # ErrMissingAttribute(event.Type, name)

\* the validator accepted an event on which both builders, each with an
\* argument of its own, located and translated everything
C9_Witness ==
    /\ valid.done /\ valid.err = NoErr
    /\ topics.done /\ topics.res.err = NoErr
    /\ data.done /\ data.res.err = NoErr
    /\ DistinctNames(descriptor)
    /\ Len(descriptor.indexedInputs) = 1
    /\ Len(descriptor.nonIndexedInputs) = 1

\* not sufficient: the validator accepted an event (enough attributes,
\* wrong keys) on which MakeData reports a missing attribute
C9_AcceptedButMissing ==
    /\ valid.done /\ valid.err = NoErr
    /\ data.done
    /\ DistinctNames(descriptor)
    /\ Len(descriptor.nonIndexedInputs) = 1
    /\ data.res = Failure(ErrMissingAttribute(event.Type,
                             descriptor.nonIndexedInputs[1].Name))

\* ----------------------------------------------------------------- C10
\* the events with the attributes of ev in another order
Permuted(ev) ==
    LET n == Len(ev.Attributes) IN
    {[Type |-> ev.Type, Attributes |-> [j \in 1..n |-> ev.Attributes[p[j]]]] :
        p \in {q \in [1..n -> 1..n] : \A a, b \in 1..n : a # b => q[a] # q[b]}}

\* ev2 has an attribute for name where ev has, and the same first one
SameFirst(ev, ev2, name) ==
    /\ HasKey(ev2, name) <=> HasKey(ev, name)
    /\ HasKey(ev, name) => FirstAttr(ev2, name) = FirstAttr(ev, name)

\* C10: on success MakeData packs exactly len(nonIndexedInputs) values, the
\* i-th being the decoded value of the attribute whose key is the name of
\* the i-th non-indexed argument; permuting the attributes (each needed
\* key keeping its first value) and the attributes of other keys do not
\* change the payload.
C10_DataOrder ==
    (data.done /\ data.res.err = NoErr) =>
        /\ Len(data.res.out) = Len(descriptor.nonIndexedInputs)
        /\ \A i \in 1..Len(descriptor.nonIndexedInputs) :
              /\ HasKey(event, descriptor.nonIndexedInputs[i].Name)
              /\ data.res.out[i] =
                    ValueOf(descriptor, event, descriptor.nonIndexedInputs[i]).v
        /\ \A ev2 \in Permuted(event) :
              (\A name \in NamesOf(descriptor.nonIndexedInputs) :
                    SameFirst(event, ev2, name))
              => MakeData(descriptor, ev2) = data.res
        /\ MakeData(descriptor,
                    Restrict(event, NamesOf(descriptor.nonIndexedInputs))) = data.res

\* data was packed for two differently named arguments whose attributes
\* come in the opposite order in the event, with different words
C10_Witness ==
    /\ data.done /\ data.res.err = NoErr
    /\ Len(descriptor.nonIndexedInputs) = 2
    /\ Len(event.Attributes) = 2
    /\ descriptor.nonIndexedInputs[1].Name = event.Attributes[2].Key
    /\ descriptor.nonIndexedInputs[2].Name = event.Attributes[1].Key
    /\ event.Attributes[1].Key # event.Attributes[2].Key
    /\ data.res.out[1] # data.res.out[2]

====
